---- MODULE Spec2Model ----
(***************************************************************************)
(* Model of simulate_game (src/competitive_sudoku/experiment.py, 37-130):  *)
(* the match orchestrator of the competitive sudoku experiment script.     *)
(*                                                                         *)
(* The orchestrator is one sequential process whose position is pc.  Each  *)
(* turn it resets the active player's shared best_move list, starts the    *)
(* agent in a multiprocessing.Process, sleeps, takes the lock, terminates  *)
(* the process, releases the lock, reads the list and evaluates the move   *)
(* with the external oracle (solve_sudoku).  The agent processes run       *)
(* concurrently and publish moves through SudokuAI.propose_move.           *)
(*                                                                         *)
(* Spec is the program step by step.  GameSpec takes lines 68-80 of each   *)
(* turn as one step that delivers any triple line 80 can read: it has      *)
(* every behaviour of Spec as far as the game state goes, and is the       *)
(* specification for the properties of the game state.                     *)
(***************************************************************************)
EXTENDS Integers, Sequences, FiniteSets, TLC

(* ------------------------------ bounds --------------------------------- *)
\* the boards of the model have one row: cells are (0, j) with j in 0..MaxCol
MaxCol == 1
\* cell values are 1..MaxValue (0 is SudokuBoard.empty)
MaxValue == 1
\* the oracle reports scores in -MaxScore..MaxScore
MaxScore == 1
\* turns played in one match (turns with unrecognised oracle output are
\* otherwise unbounded)
MaxTurns == 3

(* --------------------------- value domains ----------------------------- *)
Rows == {0}
Cols == 0..MaxCol
Cells == Rows \X Cols
Values == 1..MaxValue
Players == {1, 2}
ProcIds == 1..MaxTurns

\* SudokuBoard.empty
empty == 0

\* Move(0, 0, 0): the initial content of best_move, "no move supplied"
Sentinel == <<0, 0, 0>>

\* the moves an agent may publish: any cell with any value
AgentMoves == {<<c[1], c[2], v>> : c \in Cells, v \in Values}

\* the phrases simulate_game looks for in the oracle's output
Phrases == {"Invalid move", "Illegal move", "has no solution", "The score is"}

\* The outputs of solve_sudoku: the set of phrases the text contains, whether
\* the regex 'The score is ([-\d]+)' matches and the integer it extracts.
\* The oracle is an external program: one verdict phrase per answer, or a text with none of them (a missing or
\* crashing binary), or a score line without a number.
OracleOutputs ==
    {[phrases |-> {"Invalid move"}, match |-> FALSE, num |-> 0],
     [phrases |-> {"Illegal move"}, match |-> FALSE, num |-> 0],
     [phrases |-> {"has no solution"}, match |-> FALSE, num |-> 0],
     [phrases |-> {"The score is"}, match |-> FALSE, num |-> 0],
     [phrases |-> {}, match |-> FALSE, num |-> 0]}
    \cup {[phrases |-> {"The score is"}, match |-> TRUE, num |-> p] :
             p \in (0 - MaxScore)..MaxScore}

Range(s) == {s[k] : k \in 1..Len(s)}

\* Move.__eq__: two moves are equal when their (i, j, value) agree
MoveEq(a, b) == a[1] = b[1] /\ a[2] = b[2] /\ a[3] = b[3]

(* ------------------------------- state --------------------------------- *)
VARIABLES
    board,            \* game_state.board: cell -> value, empty = 0
    moves,            \* game_state.moves
    taboo_moves,      \* game_state.taboo_moves
    scores,           \* game_state.scores
    move_number,      \* scored moves applied so far
    number_of_moves,  \* empty squares of the initial board
    player_number,    \* the active player of the current turn (0: none yet)
    best_move,        \* player -> the shared manager.list of that player
    lock,             \* holder of the multiprocessing.Lock
    procs,            \* process id -> state of the agent process of that turn
    pc,               \* position of the orchestrator
    ridx,             \* next index of best_move to be read at line 80
    ijv,              \* the locals i, j, value of line 80
    output,           \* the local output of line 91: the oracle's latest answer
    game_winner,      \* the returned winner (-1: not set)
    turn,             \* history: number of turns begun
    prev_player,      \* history: the active player of the previous turn
    verdict,          \* history: how the latest evaluated turn was resolved
    points,           \* history: score the oracle reported in the latest turn
    exc,              \* history: where the try block of this turn raised
    calls,            \* history: oracle invocations in the current turn
    written,          \* history: player -> the turn that wrote each item of
                      \*          best_move (its reset or the process it started)
    read_from,        \* history: the turn that wrote each item line 80 read
    pre               \* history: game state when the current turn began

vars == <<board, moves, taboo_moves, scores, move_number, number_of_moves,
          player_number, best_move, lock, procs, pc, ridx, ijv, output,
          game_winner, turn, prev_player, verdict, points, exc, calls,
          written, read_from, pre>>

game == <<board, moves, taboo_moves, scores, move_number>>
hist == <<output, turn, prev_player, verdict, points, exc, calls, pre>>

Snapshot == [board |-> board, moves |-> moves, taboo_moves |-> taboo_moves,
             scores |-> scores, move_number |-> move_number]

LockFree == <<"free">>
LockOrch == <<"orch">>
LockProc(p) == <<"proc", p>>

NoProc == [st |-> "unborn", player |-> 0, pos |-> 0, mv |-> Sentinel]

\* squares.count(SudokuBoard.empty)
CountEmpty(b) == Cardinality({c \in Cells : b[c] = empty})

\* the boards a match may start from: every cell empty or filled; the value
\* of a filled cell is never read by simulate_game and is taken to be 1
InitialBoards == [Cells -> {empty, 1}]

Init ==
    /\ board \in InitialBoards
    /\ moves = <<>>
    /\ taboo_moves = <<>>
    /\ scores = <<0, 0>>
    /\ move_number = 0
    /\ number_of_moves = CountEmpty(board)
    /\ player_number = 0
    /\ best_move = [p \in Players |-> Sentinel]
    /\ lock = LockFree
    /\ procs = [p \in ProcIds |-> NoProc]
    /\ pc = "loop"
    /\ ridx = 0
    /\ ijv = Sentinel
    /\ output = [phrases |-> {}, match |-> FALSE, num |-> 0]
    /\ game_winner = -1
    /\ turn = 0
    /\ prev_player = 0
    /\ verdict = "none"
    /\ points = 0
    /\ exc = "none"
    /\ calls = 0
    /\ written = [p \in Players |-> <<0, 0, 0>>]
    /\ read_from = <<0, 0, 0>>
    /\ pre = Snapshot

(* --------------------------- the orchestrator -------------------------- *)
\* line 66: the active player is derived from the length of the move list
ActivePlayer(ms) == IF Len(ms) % 2 = 0 THEN 1 ELSE 2

\* mutant of the loop test: one turn too many
LoopContinues_inclusive(mn, n) == mn <= n

\* line 65: the loop test
LoopContinues(mn, n) == mn < n

\* lines 65-66: the loop test succeeds and the active player is selected
BeginTurn ==
    /\ pc = "loop"
    /\ LoopContinues(move_number, number_of_moves)
    /\ turn < MaxTurns
    /\ player_number' = ActivePlayer(moves)
    /\ prev_player' = player_number
    /\ turn' = turn + 1
    /\ pre' = Snapshot
    /\ exc' = "none"
    /\ calls' = 0
    /\ ridx' = 0
    /\ pc' = "reset"
    /\ UNCHANGED <<game, number_of_moves, best_move, written, lock, procs, ijv, read_from, output,
                   game_winner, verdict, points>>

\* lines 68-70: three separate assignments to the shared list
Reset ==
    /\ pc = "reset"
    /\ best_move' = [best_move EXCEPT ![player_number][ridx + 1] = 0]
    /\ written' = [written EXCEPT ![player_number][ridx + 1] = turn]
    /\ IF ridx = 2
       THEN /\ ridx' = 0
            /\ pc' = "start"
       ELSE /\ ridx' = ridx + 1
            /\ pc' = pc
    /\ UNCHANGED <<game, number_of_moves, player_number, lock, procs, ijv, read_from,
                   game_winner, hist>>

\* a process that was sent SIGTERM has exited by the time the next turn's
\* process is started (the oracle call and the reset lie in between)
NoneSignalled == \A p \in ProcIds : procs[p].st # "signalled"

\* lines 72-73: the agent process of this turn is created and started
Start ==
    /\ pc = "start"
    /\ NoneSignalled
    /\ procs' = [procs EXCEPT ![turn] =
                    [st |-> "running", player |-> player_number,
                     pos |-> 0, mv |-> Sentinel]]
    /\ pc' = "sleep"
    /\ UNCHANGED <<game, number_of_moves, player_number, best_move, written, lock,
                   ridx, ijv, read_from, game_winner, hist>>

\* lines 72-73 raise (the process cannot be created): control passes to the
\* except clause of line 78 and then to line 80
StartRaises ==
    /\ pc = "start"
    /\ NoneSignalled
    /\ exc' = "start"
    /\ pc' = "read"
    /\ UNCHANGED <<game, number_of_moves, player_number, best_move, written, lock,
                   procs, ridx, ijv, read_from, output, game_winner, turn, prev_player,
                   verdict, points, calls, pre>>

\* lines 74-75: the sleep ends and the orchestrator takes the lock
Acquire ==
    /\ pc = "sleep"
    /\ lock = LockFree
    /\ lock' = LockOrch
    /\ pc' = "terminate"
    /\ UNCHANGED <<game, number_of_moves, player_number, best_move, written, procs,
                   ridx, ijv, read_from, game_winner, hist>>

\* line 76: SIGTERM is sent to the process; terminate() does not wait for it
Terminate ==
    /\ pc = "terminate"
    /\ procs' = [procs EXCEPT ![turn].st = "signalled"]
    /\ pc' = "release"
    /\ UNCHANGED <<game, number_of_moves, player_number, best_move, written, lock,
                   ridx, ijv, read_from, game_winner, hist>>

\* line 76 raises: line 77 is skipped, the lock stays with the orchestrator
\* and the process was not stopped
TerminateRaises ==
    /\ pc = "terminate"
    /\ exc' = "terminate"
    /\ pc' = "read"
    /\ UNCHANGED <<game, number_of_moves, player_number, best_move, written, lock,
                   procs, ridx, ijv, read_from, output, game_winner, turn, prev_player,
                   verdict, points, calls, pre>>

\* line 77
Release ==
    /\ pc = "release"
    /\ lock' = LockFree
    /\ pc' = "read"
    /\ UNCHANGED <<game, number_of_moves, player_number, best_move, written, procs,
                   ridx, ijv, read_from, game_winner, hist>>

\* line 80: unpacking the list proxy fetches the three items one by one,
\* without the lock
Read ==
    /\ pc = "read"
    /\ ijv' = [ijv EXCEPT ![ridx + 1] = best_move[player_number][ridx + 1]]
    /\ read_from' = [read_from EXCEPT ![ridx + 1] =
                                         written[player_number][ridx + 1]]
    /\ IF ridx = 2
       THEN /\ ridx' = 0
            /\ pc' = "eval"
       ELSE /\ ridx' = ridx + 1
            /\ pc' = pc
    /\ UNCHANGED <<game, number_of_moves, player_number, best_move, written, lock,
                   procs, game_winner, hist>>

\* mutant of the opponent: the active player is declared the winner
Opponent_self(pn) == pn

\* lines 87, 94, 98, 116: the opponent of the active player
Opponent(pn) == 3 - pn

\* mutant of the taboo lookup: the lookup is left out
IsTaboo_never(mv, tm) == FALSE

\* mutant of the taboo lookup: only the latest taboo move is compared
IsTaboo_latest(mv, tm) == tm # <<>> /\ MoveEq(tm[Len(tm)], mv)

\* line 85: TabooMove(i, j, value) in game_state.taboo_moves
IsTaboo(mv, tm) == \E k \in 1..Len(tm) : MoveEq(tm[k], mv)

\* mutant of the placement: the board is not written
Put_skipped(b, mv) == b

\* line 109: game_state.board.put(i, j, value)
Put(b, mv) == [b EXCEPT ![<<mv[1], mv[2]>>] = mv[3]]

\* mutant of the score update: the score is subtracted
NewScores_minus(s, pn, player_score) == [s EXCEPT ![pn] = s[pn] - player_score]

\* mutant of the score update: the other player is credited
NewScores_other(s, pn, player_score) ==
    [s EXCEPT ![3 - pn] = s[3 - pn] + player_score]

\* line 118: the active player's score grows by player_score
NewScores(s, pn, player_score) == [s EXCEPT ![pn] = s[pn] + player_score]

\* mutant of the final comparison: a draw is awarded to player 1
Winner_nodraw(s) == IF s[1] >= s[2] THEN 1 ELSE 2

\* lines 121-129: the winner by score
Winner(s) == IF s[1] > s[2] THEN 1 ELSE IF s[1] = s[2] THEN 0 ELSE 2

\* lines 87-88, 94-95, 98-99, 116-117: the active player forfeits
Forfeit(v) ==
    /\ game_winner' = Opponent(player_number)
    /\ pc' = "forfeited"
    /\ verdict' = v
    /\ points' = 0
    /\ UNCHANGED game

\* mutant of line 103: the taboo move is not entered in the move list
MovesWithTaboo_skipped(ms, mv) == ms

\* line 103: the taboo move is appended to the move list
MovesWithTaboo(ms, mv) == Append(ms, mv)

\* mutant of line 104: the taboo move is not recorded
TabooRecorded_skipped(tm, mv) == tm

\* line 104: the taboo move is appended to the taboo list
TabooRecorded(tm, mv) == Append(tm, mv)

\* mutant of the rejection test: 'Illegal move' is not looked for
Rejected_invalid_only(out) == "Invalid move" \in out.phrases

\* lines 92 and 96: the oracle rejects the move
Rejected(out) ==
    "Invalid move" \in out.phrases \/ "Illegal move" \in out.phrases

\* lines 92-113 and 118: the turn is resolved on the oracle's output
Resolve(out) ==
    IF Rejected(out)
    THEN Forfeit(IF "Invalid move" \in out.phrases THEN "invalid" ELSE "illegal")
    ELSE
      LET nosol == "has no solution" \in out.phrases
          scoreis == "The score is" \in out.phrases
          moves1 == IF nosol THEN MovesWithTaboo(moves, ijv) ELSE moves
          taboo1 == IF nosol THEN TabooRecorded(taboo_moves, ijv)
                             ELSE taboo_moves
      IN  IF scoreis /\ ~out.match
          THEN \* line 113: RuntimeError leaves simulate_game
               /\ moves' = moves1
               /\ taboo_moves' = taboo1
               /\ pc' = "raised"
               /\ verdict' = "malformed"
               /\ points' = 0
               /\ UNCHANGED <<board, scores, move_number, game_winner>>
          ELSE LET player_score == IF scoreis THEN out.num ELSE 0
               IN  /\ moves' = IF scoreis THEN Append(moves1, ijv) ELSE moves1
                   /\ taboo_moves' = taboo1
                   /\ board' = IF scoreis THEN Put(board, ijv) ELSE board
                   /\ move_number' = IF scoreis THEN move_number + 1
                                                ELSE move_number
                   /\ scores' = NewScores(scores, player_number, player_score)
                   /\ pc' = "loop"
                   /\ verdict' = IF scoreis THEN "scored"
                                 ELSE IF nosol THEN "taboo" ELSE "unrecognised"
                   /\ points' = IF scoreis THEN out.num ELSE 0
                   /\ UNCHANGED game_winner

\* lines 81-118: the move read at line 80 is evaluated
Evaluate ==
    /\ pc = "eval"
    /\ IF MoveEq(ijv, Sentinel)
       THEN Forfeit("no move") /\ UNCHANGED <<output, calls>>
       ELSE IF IsTaboo(ijv, taboo_moves)
       THEN Forfeit("taboo repeat") /\ UNCHANGED <<output, calls>>
       ELSE \* line 91: the oracle is asked
            \E out \in OracleOutputs :
                /\ output' = out
                /\ calls' = calls + 1
                /\ Resolve(out)
    /\ UNCHANGED <<number_of_moves, player_number, best_move, written, lock, procs,
                   ridx, ijv, read_from, turn, prev_player, exc, pre>>

\* lines 121-130: the loop has ended and the winner is decided by score
Finish ==
    /\ pc = "loop"
    /\ ~LoopContinues(move_number, number_of_moves)
    /\ game_winner' = Winner(scores)
    /\ pc' = "finished"
    /\ UNCHANGED <<game, number_of_moves, player_number, best_move, written, lock,
                   procs, ridx, ijv, read_from, hist>>

(* --------------------------- the agent processes ----------------------- *)
Alive(p) == procs[p].st \in {"running", "signalled"}

\* propose_move: the agent takes the lock to publish the move m
ProcAcquire(p, m) ==
    /\ Alive(p)
    /\ procs[p].pos = 0
    /\ lock = LockFree
    /\ lock' = LockProc(p)
    /\ procs' = [procs EXCEPT ![p].pos = 1, ![p].mv = m]
    /\ UNCHANGED <<game, number_of_moves, player_number, best_move, written, pc, ridx,
                   ijv, read_from, game_winner, hist>>

\* propose_move: best_move[0], best_move[1], best_move[2] are assigned in turn
ProcWrite(p) ==
    /\ Alive(p)
    /\ procs[p].pos \in 1..3
    /\ best_move' = [best_move EXCEPT
                        ![procs[p].player][procs[p].pos] = procs[p].mv[procs[p].pos]]
    /\ written' = [written EXCEPT ![procs[p].player][procs[p].pos] = p]
    /\ procs' = [procs EXCEPT ![p].pos = @ + 1]
    /\ UNCHANGED <<game, number_of_moves, player_number, lock, pc, ridx, ijv, read_from,
                   game_winner, hist>>

\* propose_move: the lock is released after the third assignment
ProcRelease(p) ==
    /\ Alive(p)
    /\ procs[p].pos = 4
    /\ lock' = LockFree
    /\ procs' = [procs EXCEPT ![p].pos = 0, ![p].mv = Sentinel]
    /\ UNCHANGED <<game, number_of_moves, player_number, best_move, written, pc, ridx,
                   ijv, read_from, game_winner, hist>>

\* the process that was sent SIGTERM exits; a lock it holds is not released
ProcDie(p) ==
    /\ procs[p].st = "signalled"
    /\ procs' = [procs EXCEPT ![p] = [st |-> "dead", player |-> @.player,
                                      pos |-> 0, mv |-> Sentinel]]
    /\ UNCHANGED <<game, number_of_moves, player_number, best_move, written, lock, pc,
                   ridx, ijv, read_from, game_winner, hist>>

\* every triple line 80 can deliver: each item is 0 (the reset value, which
\* is also the sentinel's) or an item of a published move
ReadableTriples == {<<c[1], c[2], v>> : c \in Cells, v \in {0} \cup Values}

\* lines 68-80 as one step, for the properties of the game state alone: the
\* isolated computation hands the turn a triple, whether or not the try
\* block raised (lines 81-118 do not read that); the lock, the processes and
\* the shared lists are left out of account
ComputeMove ==
    /\ pc = "reset"
    /\ ijv' \in ReadableTriples
    /\ pc' = "eval"
    /\ UNCHANGED <<read_from, game, number_of_moves, player_number, best_move, written, lock,
                   procs, ridx, output, game_winner, turn, prev_player,
                   verdict, points, exc, calls, pre>>

NextGame ==
    \/ BeginTurn
    \/ ComputeMove
    \/ Evaluate
    \/ Finish

\* the turn loop with the move computation of each turn taken as one step
GameSpec == Init /\ [][NextGame]_vars

Next ==
    \/ BeginTurn
    \/ Reset
    \/ Start
    \/ StartRaises
    \/ Acquire
    \/ Terminate
    \/ TerminateRaises
    \/ Release
    \/ Read
    \/ Evaluate
    \/ Finish
    \/ \E p \in ProcIds, m \in AgentMoves : ProcAcquire(p, m)
    \/ \E p \in ProcIds : ProcWrite(p)
    \/ \E p \in ProcIds : ProcRelease(p)
    \/ \E p \in ProcIds : ProcDie(p)

Spec == Init /\ [][Next]_vars

\* the orchestrator runs on while a statement of it can run
Orchestrator ==
    \/ BeginTurn
    \/ Reset
    \/ Start
    \/ StartRaises
    \/ Terminate
    \/ TerminateRaises
    \/ Release
    \/ Read
    \/ Evaluate
    \/ Finish

\* scheduling: the orchestrator and every process inside propose_move keep
\* running, the sleep of line 74 ends and lock.acquire() of line 75 succeeds
\* if the lock is free again and again, a process sent SIGTERM exits; an
\* agent need not ever publish a move
Fairness ==
    /\ WF_vars(Orchestrator)
    /\ SF_vars(Acquire)
    /\ \A p \in ProcIds : WF_vars(ProcWrite(p) \/ ProcRelease(p))
    /\ \A p \in ProcIds : WF_vars(ProcDie(p))

FairSpec == Spec /\ Fairness

(* ------------------------------ properties ----------------------------- *)
\* the latest turn has been evaluated: ijv is the move it proposed, pre the
\* game state it began with, player_number its active player
TurnEvaluated ==
    turn >= 1 /\ pc \in {"loop", "finished", "forfeited", "raised"}

\* the latest turn has been evaluated and the match goes on
TurnCompleted == turn >= 1 /\ pc \in {"loop", "finished"}

\* the oracle was asked in the latest turn
OracleAsked == TurnEvaluated /\ calls >= 1

\* the game state is as it was when the turn began
GameUnchanged == Snapshot = pre

\* the scored moves applied: taboo moves are in both lists
ScoredMoves == Len(moves) - Len(taboo_moves)

Total(s) == s[1] + s[2]

\* C1: the active player of a turn is never the active player of the turn
\* before it.
C1_TurnsAlternate == turn >= 2 => player_number # prev_player

\* C2: a match that leaves the turn loop normally has applied exactly as
\* many scored moves as the initial board had empty cells; taboo-recording
\* turns are not counted.
C2_ExactlyNScoredMoves ==
    pc = "finished" => /\ ScoredMoves = number_of_moves
                       /\ move_number = number_of_moves

C2_Witness ==
    /\ pc = "finished"
    /\ number_of_moves = 2
    /\ Len(taboo_moves) = 1

\* C3: in a turn that does not end the match the active player's score
\* changes by the score the oracle reported (by 0 on a taboo-recording turn)
\* and the other player's score does not change.
C3_ScoreDelta ==
    TurnCompleted =>
        /\ scores[player_number] =
              pre.scores[player_number]
              + (IF "The score is" \in output.phrases THEN output.num ELSE 0)
        /\ scores[3 - player_number] = pre.scores[3 - player_number]

C3_Witness ==
    /\ TurnCompleted
    /\ player_number = 2
    /\ "The score is" \in output.phrases
    /\ output.num = 1
    /\ pre.scores[1] # 0

\* C4 as claimed: the sum of the two scores never decreases over a turn.
C4_TotalNeverDecreases == Total(scores) >= Total(pre.scores)

\* C4 as amended: the sum of the two scores does not decrease over a turn
\* in which the oracle reports no negative score; a negative score lowers
\* the sum by its amount.
C4_TotalChangesByReportedScore ==
    TurnEvaluated =>
        /\ points >= 0 => Total(scores) >= Total(pre.scores)
        /\ points < 0 => Total(scores) = Total(pre.scores) + points

C4_Witness ==
    /\ TurnCompleted
    /\ verdict = "scored"
    /\ points > 0
    /\ Total(scores) > Total(pre.scores)
    /\ Total(pre.scores) < 0

\* C5: a turn that proposes a triple already recorded as a taboo move ends
\* the match with the opponent of the proposing player as winner and both
\* scores as before the turn, whoever recorded the taboo move.
C5_TabooRepeatForfeits ==
    (TurnEvaluated /\ ijv \in Range(pre.taboo_moves)) =>
        /\ pc = "forfeited"
        /\ game_winner = 3 - player_number
        /\ scores = pre.scores

C5_Witness ==
    /\ pc = "forfeited"
    /\ ijv \in Range(pre.taboo_moves)
    /\ Len(pre.taboo_moves) = 2
    /\ ijv = pre.taboo_moves[1]

\* C6: a turn in which the sentinel (0, 0, 0) is read ends the match with
\* the opponent as winner and the game state untouched, and no turn follows.
C6_NoMoveForfeits ==
    /\ [](TurnEvaluated /\ ijv = Sentinel =>
             /\ pc = "forfeited"
             /\ game_winner = 3 - player_number
             /\ GameUnchanged)
    /\ [][pc = "forfeited" => pc' = "forfeited" /\ turn' = turn]_vars

C6_Witness ==
    /\ pc = "forfeited"
    /\ ijv = Sentinel
    /\ player_number = 2
    /\ pre.moves # <<>>

\* C7: a turn whose oracle answer is 'Invalid move' or 'Illegal move' ends
\* the match with the opponent as winner and the game state untouched.
C7_RejectedMoveForfeits ==
    (OracleAsked /\ output.phrases \cap {"Invalid move", "Illegal move"} # {}) =>
        /\ pc = "forfeited"
        /\ game_winner = 3 - player_number
        /\ GameUnchanged

C7_Witness ==
    /\ OracleAsked
    /\ "Illegal move" \in output.phrases
    /\ pc = "forfeited"
    /\ pre.taboo_moves # <<>>
    /\ pre.scores # <<0, 0>>

\* C8: after normal termination the winner is 1, 2 or 0 as scores[0] is
\* greater than, less than or equal to scores[1]; every returned winner is
\* 0, 1 or 2, and 0 only with equal scores once the empty cells are used up.
C8_WinnerByScore ==
    /\ pc = "finished" =>
          /\ scores[1] > scores[2] => game_winner = 1
          /\ scores[1] < scores[2] => game_winner = 2
          /\ scores[1] = scores[2] => game_winner = 0
    /\ pc \in {"finished", "forfeited"} => game_winner \in {0, 1, 2}
    /\ game_winner = 0 =>
          /\ pc = "finished"
          /\ scores[1] = scores[2]
          /\ ScoredMoves = number_of_moves

C8_Witness ==
    /\ pc = "finished"
    /\ game_winner = 0
    /\ number_of_moves = 2
    /\ scores[1] # 0

\* C9: a turn whose oracle answer has none of the expected phrases makes
\* the match fail: simulate_game raises and no further turn is played.
C9_UnrecognisedOutputRaises ==
    (OracleAsked /\ output.phrases = {}) => pc = "raised"

\* C10: a turn in which starting or terminating the process raised is
\* resolved as a forfeit of the active player, whatever best_move holds.
C10_ExceptionForfeits ==
    (TurnEvaluated /\ exc # "none") =>
        /\ pc = "forfeited"
        /\ game_winner = 3 - player_number

\* what ComputeMove hands to Evaluate covers what the steps of lines 68-80
\* hand to it
ComputeMoveCovers == pc = "eval" => ijv \in ReadableTriples

\* C11: the triple handed to the evaluation is a whole committed triple: the
\* sentinel of the reset or a move an agent published in one guarded
\* update, never a mix of items of two writes.
C11_ReadIsCommittedTriple ==
    pc = "eval" => (ijv = Sentinel \/ ijv \in AgentMoves)

\* C12: at most one agent process is alive at any time, and none is alive
\* when the orchestrator reads the move or evaluates it.
C12_OneProcessStoppedBeforeRead ==
    /\ Cardinality({p \in ProcIds : Alive(p)}) <= 1
    /\ pc \in {"read", "eval"} => \A p \in ProcIds : ~Alive(p)

\* C17: when line 80 reads best_move after the process was terminated, the
\* orchestrator holds the lock.
C17_LockHeldAtRead == (pc = "read" /\ exc = "none") => lock = LockOrch

\* C19: once a turn has been evaluated the lock is free.
C19_LockFreeAtEndOfTurn == TurnEvaluated => lock = LockFree

\* growth of len(moves) + len(taboo_moves) over the latest turn
HistoryGrowth ==
    Len(moves) + Len(taboo_moves) - Len(pre.moves) - Len(pre.taboo_moves)

\* C13 as claimed, for the scored and the taboo-recording turns it names:
\* len(moves) + len(taboo_moves) grows by exactly one.
C13_HistoriesGrowByOne ==
    (TurnCompleted /\ verdict \in {"scored", "taboo"}) => HistoryGrowth = 1

\* C13 as amended: over a turn that does not end the match
\* len(moves) + len(taboo_moves) grows by one when the move is scored, by
\* two when it is recorded as taboo (it enters both lists), and not at all
\* when the oracle's answer has none of the expected phrases.
C13_HistoriesGrowByVerdict ==
    TurnCompleted =>
        HistoryGrowth = IF "The score is" \in output.phrases THEN 1
                        ELSE IF "has no solution" \in output.phrases THEN 2
                        ELSE 0

C13_Witness ==
    /\ TurnCompleted
    /\ "has no solution" \in output.phrases
    /\ HistoryGrowth = 2
    /\ pre.moves # <<>>

\* C14: a turn answered 'has no solution' appends the triple to the taboo
\* list and to the move list, leaves board, scores and the count of scored
\* moves as they were, and the match goes on with the other player.
C14_TabooTurn ==
    (OracleAsked /\ "has no solution" \in output.phrases) =>
        /\ taboo_moves = Append(pre.taboo_moves, ijv)
        /\ moves = Append(pre.moves, ijv)
        /\ board = pre.board
        /\ scores = pre.scores
        /\ move_number = pre.move_number
        /\ pc = "loop"
        /\ move_number < number_of_moves
        /\ (IF Len(moves) % 2 = 0 THEN 1 ELSE 2) = 3 - player_number

C14_Witness ==
    /\ OracleAsked
    /\ "has no solution" \in output.phrases
    /\ player_number = 2
    /\ pre.scores # <<0, 0>>
    /\ pc = "loop"

\* the latest turn was answered with a score
ScoredTurn ==
    OracleAsked /\ "The score is" \in output.phrases /\ output.match

\* C15: a turn answered with a score sets exactly the cell of the move to
\* its value, appends the move to the move list, leaves the taboo list and
\* adds one to the count of scored moves; nothing else changes the board.
C15_BoardChangesOnlyWhenScored ==
    /\ ScoredTurn =>
          /\ board = [pre.board EXCEPT ![<<ijv[1], ijv[2]>>] = ijv[3]]
          /\ moves = Append(pre.moves, ijv)
          /\ taboo_moves = pre.taboo_moves
          /\ move_number = pre.move_number + 1
    /\ ~ScoredTurn => board = pre.board

C15_Witness ==
    /\ ScoredTurn
    /\ board # pre.board
    /\ ijv[2] = 1
    /\ taboo_moves # <<>>

\* C16: the oracle is asked at most once in a turn, and not at all in a turn
\* whose move is the sentinel or a recorded taboo move.
C16_TabooLookupBeforeOracle ==
    /\ calls <= 1
    /\ (TurnEvaluated /\ (ijv = Sentinel \/ ijv \in Range(pre.taboo_moves)))
          => calls = 0

C16_Witness ==
    /\ TurnEvaluated
    /\ ijv \in Range(pre.taboo_moves)
    /\ calls = 0
    /\ player_number = 2

\* C20: every item of the triple that is evaluated was written in the turn
\* that evaluates it, by its reset or by the process it started.
C20_MoveIsOfThisTurn ==
    pc = "eval" => \A k \in 1..3 : read_from[k] = turn

\* the match is over: a winner was returned or RuntimeError left the loop
MatchOver == pc \in {"finished", "forfeited", "raised"}

\* the match goes on beyond the turns that are explored
TurnsExhausted ==
    pc = "loop" /\ turn = MaxTurns /\ LoopContinues(move_number, number_of_moves)

\* C18: under fair scheduling every match eventually ends (or goes on
\* beyond the explored turns): no turn blocks for ever.
C18_MatchTerminates == <>(MatchOver \/ TurnsExhausted)

TypeOK ==
    /\ board \in [Cells -> {empty} \cup Values]
    /\ scores \in Int \X Int
    /\ player_number \in 0..2
    /\ game_winner \in -1..2
    /\ pc \in {"loop", "reset", "start", "sleep", "terminate", "release",
               "read", "eval", "finished", "forfeited", "raised"}
====
